---------------------------- MODULE Spec2Model ----------------------------
(***************************************************************************)
(* A model of the two numerical subsystems of seer:                        *)
(*   - dissimiliarityMatrix / threadDistance / distanceFunction            *)
(*     (src/src/panglossStruct.cpp): the pairwise distance engine with its *)
(*     bounded queue of std::async tasks;                                  *)
(*   - doLogit / newtonRaphson (src/src/seerBinaryAssoc.cpp): the cascade  *)
(*     of fitting stages of one feature (Kmer).                            *)
(* Each subsystem has its own specification (SpecDist, SpecFit); the       *)
(* variables of the other subsystem stay at their initial values.          *)
(***************************************************************************)
EXTENDS Integers, Sequences, FiniteSets

(* ------------------------------ bounds -------------------------------- *)
MaxRows == 3        \* matrices of 0..MaxRows samples
NCols == 2          \* features (columns) per sample row
MaxThreads == 2     \* worker counts 1..MaxThreads
MaxIterCap == 3     \* iteration caps 1..MaxIterCap

VARIABLES
  \* dissimiliarityMatrix
  inMat,                  \* const arma::mat& inMat: rows 0..matSize-1
  threads,                \* const unsigned int threads
  i, j,                   \* the loop indices
  pc,                     \* position of the scheduling loop
  ref_row, new_row,       \* the scheduler's row buffers (Dead: out of lifetime)
  distance_calculations,  \* std::queue<std::future<distance_element>>
  dist,                   \* arma::mat dist(matSize, matSize)
  \* doLogit / newtonRaphson
  max_nr_iterations,      \* the iteration cap
  pc_fit,                 \* position inside the fit call
  comments,               \* Kmer's tag list (add_comment)
  beta, standard_error, p_val,  \* Kmer's result fields
  firth,                  \* the firth argument of the running newtonRaphson
  n_iterations,           \* parameter_iterations.size()
  loop_i,                 \* the loop counter of newtonRaphson
  converged,              \* did the last iteration meet the convergence test
  exception,              \* the exception that left doLogit ("none": none)
  entries,                \* history: calls of newtonRaphson per firth value
  convergedAt             \* history: iteration at which each stage first converged (0: never)

distVars == <<inMat, threads, i, j, pc, ref_row, new_row, distance_calculations, dist>>
fitVars == <<max_nr_iterations, pc_fit, comments, beta, standard_error, p_val,
             firth, n_iterations, loop_i, converged, exception, entries, convergedAt>>
vars == <<distVars, fitVars>>

(* ========================= the distance engine ======================== *)

Dead == <<>>
Unset == -1

\* The 0/1 rows the inputs are drawn from: the sample that carries no feature
\* and the sample that carries every feature.
BinaryRows == {[k \in 1..NCols |-> b] : b \in {0, 1}}

matSize == Cardinality(DOMAIN inMat)

abs(x) == IF x < 0 THEN -x ELSE x

RECURSIVE accuAbsDiff(_, _, _)
accuAbsDiff(vec_1, vec_2, k) ==
  IF k = 0 THEN 0
  ELSE abs(vec_1[k] - vec_2[k]) + accuAbsDiff(vec_1, vec_2, k - 1)

\* accu(abs(vec_1 - vec_2))
distanceFunction(vec_1, vec_2) == accuAbsDiff(vec_1, vec_2, NCols)

\* The objects a task's std::cref arguments refer to are the scheduler's
\* ref_row of outer iteration t.row and new_row of inner iteration t.col.
RefAlive(t) == pc \in {"inner", "scheduled"} /\ i = t.row /\ ref_row # Dead
NewAlive(t) == pc = "scheduled" /\ i = t.row /\ j = t.col /\ new_row # Dead

\* What a read through the reference yields: the buffer while its object
\* lives, anything once the object is gone (dangling reference).
ReadRow1(t) == IF RefAlive(t) THEN {ref_row} ELSE BinaryRows
ReadRow2(t) == IF NewAlive(t) THEN {new_row} ELSE BinaryRows

\* threadDistance(i, j, row_1, row_2)
threadDistance(t, row_1, row_2) ==
  [row |-> t.row, col |-> t.col, done |-> TRUE,
   distance |-> distanceFunction(row_1, row_2)]

NewTask(r, c) == [row |-> r, col |-> c, done |-> FALSE, distance |-> Unset]

\* dist(d.row, d.col) = d.distance; dist(d.col, d.row) = d.distance;
WriteResult(m, d) ==
  [m EXCEPT ![<<d.row, d.col>>] = d.distance, ![<<d.col, d.row>>] = d.distance]

\* front() / pop()
Front(q) == Head(q)
Pop(q) == Tail(q)

\* distance_calculations.size() == threads
QueueFullLate(q) == Len(q) = threads + 1
QueueFull(q) == Len(q) = threads

\* while (distance_calculations.size() > 0)
DrainExitEarly(q) == Len(q) <= 1
DrainExit(q) == Len(q) = 0

FitIdle ==
  /\ max_nr_iterations = 1
  /\ pc_fit = "idle"
  /\ comments = <<>>
  /\ beta = <<>> /\ standard_error = <<>> /\ p_val = <<>>
  /\ firth = FALSE
  /\ n_iterations = 0
  /\ loop_i = 0
  /\ converged = FALSE
  /\ exception = "none"
  /\ entries = [f \in BOOLEAN |-> 0]
  /\ convergedAt = [f \in BOOLEAN |-> 0]

InitDist ==
  /\ FitIdle
  /\ \E n \in 0..MaxRows : inMat \in [0..(n - 1) -> BinaryRows]
  /\ threads \in 1..MaxThreads
  /\ i = 0 /\ j = 0
  /\ pc = "outer"
  /\ ref_row = Dead /\ new_row = Dead
  /\ distance_calculations = <<>>
  /\ dist = [c \in (DOMAIN inMat) \X (DOMAIN inMat) |-> Unset]

\* for (i = 0; i < matSize; ++i) { arma::vec ref_row = inMat.row(i); for (j = i; ...
OuterLoop ==
  /\ pc = "outer"
  /\ IF i < matSize
       THEN /\ ref_row' = inMat[i]
            /\ j' = i
            /\ pc' = "inner"
       ELSE /\ pc' = "drain"
            /\ UNCHANGED <<ref_row, j>>
  /\ UNCHANGED <<inMat, threads, i, new_row, distance_calculations, dist, fitVars>>

\* j reached matSize: the body of the outer loop ends, ref_row is destroyed, ++i
EndOuterIteration ==
  /\ pc = "inner"
  /\ ~(j < matSize)
  /\ ref_row' = Dead
  /\ i' = i + 1
  /\ pc' = "outer"
  /\ UNCHANGED <<inMat, threads, j, new_row, distance_calculations, dist, fitVars>>

\* if (i == j) dist(i, j) = 0;
Diagonal ==
  /\ pc = "inner"
  /\ j < matSize
  /\ i = j
  /\ dist' = [dist EXCEPT ![<<i, j>>] = 0]
  /\ j' = j + 1
  /\ UNCHANGED <<inMat, threads, i, pc, ref_row, new_row, distance_calculations, fitVars>>

\* if (size() == threads) { d = front().get(); pop(); dist(...) = d.distance; ... }
\* get() returns once the task has run
CollectWhenFull ==
  /\ pc = "inner"
  /\ j < matSize
  /\ i # j
  /\ QueueFull(distance_calculations)
  /\ Front(distance_calculations).done
  /\ dist' = WriteResult(dist, Front(distance_calculations))
  /\ distance_calculations' = Pop(distance_calculations)
  /\ UNCHANGED <<inMat, threads, i, j, pc, ref_row, new_row, fitVars>>

\* arma::vec new_row = inMat.row(j); push(std::async(threadDistance, i, j, cref, cref))
Schedule ==
  /\ pc = "inner"
  /\ j < matSize
  /\ i # j
  /\ ~QueueFull(distance_calculations)
  /\ new_row' = inMat[j]
  /\ distance_calculations' = Append(distance_calculations, NewTask(i, j))
  /\ pc' = "scheduled"
  /\ UNCHANGED <<inMat, threads, i, j, ref_row, dist, fitVars>>

\* the else block ends: new_row is destroyed, j++
EndInnerIteration ==
  /\ pc = "scheduled"
  /\ new_row' = Dead
  /\ j' = j + 1
  /\ pc' = "inner"
  /\ UNCHANGED <<inMat, threads, i, ref_row, distance_calculations, dist, fitVars>>

\* a task runs (on its own thread, or deferred inside get()): it reads both
\* rows through its references
RunTask ==
  /\ pc \in {"outer", "inner", "scheduled", "drain"}
  /\ \E k \in 1..Len(distance_calculations) :
       /\ ~distance_calculations[k].done
       /\ \E row_1 \in ReadRow1(distance_calculations[k]),
             row_2 \in ReadRow2(distance_calculations[k]) :
            distance_calculations' =
              [distance_calculations EXCEPT
                 ![k] = threadDistance(distance_calculations[k], row_1, row_2)]
  /\ UNCHANGED <<inMat, threads, i, j, pc, ref_row, new_row, dist, fitVars>>

\* while (size() > 0) { d = front().get(); pop(); dist(...) = d.distance; ... }
Drain ==
  /\ pc = "drain"
  /\ ~DrainExit(distance_calculations)
  /\ Front(distance_calculations).done
  /\ dist' = WriteResult(dist, Front(distance_calculations))
  /\ distance_calculations' = Pop(distance_calculations)
  /\ UNCHANGED <<inMat, threads, i, j, pc, ref_row, new_row, fitVars>>

\* return dist;
Return ==
  /\ pc = "drain"
  /\ DrainExit(distance_calculations)
  /\ pc' = "returned"
  /\ UNCHANGED <<inMat, threads, i, j, ref_row, new_row, distance_calculations, dist, fitVars>>

NextDist ==
  \/ OuterLoop
  \/ EndOuterIteration
  \/ Diagonal
  \/ CollectWhenFull
  \/ Schedule
  \/ EndInnerIteration
  \/ RunTask
  \/ Drain
  \/ Return

SpecDist == InitDist /\ [][NextDist]_vars

(* ============================ the logit fitter ======================== *)

\* A result field of the Kmer: which stage stored it, from which element of
\* parameter_iterations (0 for the optimiser's starting_point)
Unwritten == [by |-> "none", iterate |-> 0]
Written(stage, k) == [by |-> stage, iterate |-> k]

StageName(f) == IF f THEN "firth" ELSE "nr"

\* dlib::find_max(...): returns with the optimum in starting_point, or raises
find_max_outcomes == {"returns", "throws"}

\* inv_covar(A): the inverse, or an error when no inverse can be produced
inv_covar_outcomes == {"ok", "throws"}

\* arma::mat W = diagmat(y_pred * (1 - y_pred)): the product of two n x 1
\* vectors. Armadillo raises std::logic_error on the size mismatch unless the
\* build disables its checks (or n = 1).
firth_weights_outcomes == {"ok", "throws"}

\* what one pass through the loop body can end in
IterationOutcomes(f) ==
  {[ok |-> (a = "ok" /\ b = "ok"),
    exception |-> IF a = "throws" THEN "inv_covar" ELSE IF b = "throws" THEN "logic_error" ELSE "none"] :
     a \in inv_covar_outcomes, b \in IF f THEN firth_weights_outcomes ELSE {"ok"}}

\* k.add_comment("bfgs-fail")
AddBfgsFailForgotten(c) == c
AddBfgsFail(c) == Append(c, "bfgs-fail")

\* k.add_comment("nr-fail") / k.add_comment("firth-fail")
AddStageFail(c, f) == Append(c, IF f THEN "firth-fail" ELSE "nr-fail")

\* for (unsigned int i = 0; i < max_nr_iterations; ++i)
LoopConditionOffByOne(k) == k <= max_nr_iterations
LoopCondition(k) == k < max_nr_iterations

\* if (parameter_iterations.size() == max_nr_iterations)
ConvergenceNotReached(size) == size = max_nr_iterations

DistIdle ==
  /\ inMat = <<>>
  /\ threads = 1
  /\ i = 0 /\ j = 0
  /\ pc = "idle"
  /\ ref_row = Dead /\ new_row = Dead
  /\ distance_calculations = <<>>
  /\ dist = <<>>

InitFit ==
  /\ DistIdle
  /\ max_nr_iterations \in 1..MaxIterCap
  /\ pc_fit = "find_max"
  /\ comments = <<>>
  /\ beta = Unwritten /\ standard_error = Unwritten /\ p_val = Unwritten
  /\ firth = FALSE
  /\ n_iterations = 0
  /\ loop_i = 0
  /\ converged = FALSE
  /\ exception = "none"
  /\ entries = [f \in BOOLEAN |-> 0]
  /\ convergedAt = [f \in BOOLEAN |-> 0]

\* doLogit: try { dlib::find_max(...); ... k.beta(b_1);
FindMax ==
  /\ pc_fit = "find_max"
  /\ \E o \in find_max_outcomes :
       IF o = "returns"
         THEN /\ beta' = Written("bfgs", 0)
              /\ pc_fit' = "var_covar"
         ELSE /\ pc_fit' = "catch"
              /\ UNCHANGED beta
  /\ UNCHANGED <<max_nr_iterations, comments, standard_error, p_val, firth,
                 n_iterations, loop_i, converged, exception, entries, convergedAt, distVars>>

\* double se = pow(varCovarMat(x_design, b_vector)(1,1), 0.5); k.standard_error(se);
\* k.p_val(normalPval(W)); }      varCovarMat returns inv_covar(I)
BfgsStandardError ==
  /\ pc_fit = "var_covar"
  /\ \E o \in inv_covar_outcomes :
       IF o = "ok"
         THEN /\ standard_error' = Written("bfgs", 0)
              /\ p_val' = Written("bfgs", 0)
              /\ pc_fit' = "done"
         ELSE /\ pc_fit' = "catch"
              /\ UNCHANGED <<standard_error, p_val>>
  /\ UNCHANGED <<max_nr_iterations, comments, beta, firth,
                 n_iterations, loop_i, converged, exception, entries, convergedAt, distVars>>

\* catch (std::exception& e) { k.add_comment("bfgs-fail"); newtonRaphson(k, y_train, x_design); }
CatchBfgsFail ==
  /\ pc_fit = "catch"
  /\ comments' = AddBfgsFail(comments)
  /\ firth' = FALSE
  /\ pc_fit' = "nr_start"
  /\ UNCHANGED <<max_nr_iterations, beta, standard_error, p_val,
                 n_iterations, loop_i, converged, exception, entries, convergedAt, distVars>>

\* newtonRaphson: parameter_iterations.push_back(starting_point); i = 0
NrStart ==
  /\ pc_fit = "nr_start"
  /\ entries' = [entries EXCEPT ![firth] = @ + 1]
  /\ n_iterations' = 1
  /\ loop_i' = 0
  /\ converged' = FALSE
  /\ pc_fit' = "nr_loop"
  /\ UNCHANGED <<max_nr_iterations, comments, beta, standard_error, p_val, firth,
                 exception, convergedAt, distVars>>

\* one pass through the loop body: an exception leaves newtonRaphson and, as the
\* call sits in doLogit's catch handler, doLogit; otherwise b1 is pushed and
\* tested, if (std::abs(b1(1) - b0(1)) < convergence_limit) break;
NrIterate ==
  /\ pc_fit = "nr_loop"
  /\ LoopCondition(loop_i)
  /\ \E o \in IterationOutcomes(firth) :
       IF ~o.ok
         THEN /\ exception' = o.exception
              /\ pc_fit' = "escaped"
              /\ UNCHANGED <<n_iterations, loop_i, converged, convergedAt>>
         ELSE /\ n_iterations' = n_iterations + 1
              /\ UNCHANGED exception
              /\ \E c \in BOOLEAN :
                   /\ converged' = c
                   /\ IF c
                        THEN /\ convergedAt' = [convergedAt EXCEPT ![firth] = loop_i + 1]
                             /\ pc_fit' = "nr_check"
                             /\ UNCHANGED loop_i
                        ELSE /\ loop_i' = loop_i + 1
                             /\ UNCHANGED <<pc_fit, convergedAt>>
  /\ UNCHANGED <<max_nr_iterations, comments, beta, standard_error, p_val, firth,
                 entries, distVars>>

\* the loop condition fails
NrLoopExit ==
  /\ pc_fit = "nr_loop"
  /\ ~LoopCondition(loop_i)
  /\ pc_fit' = "nr_check"
  /\ UNCHANGED <<max_nr_iterations, comments, beta, standard_error, p_val, firth,
                 n_iterations, loop_i, converged, exception, entries, convergedAt, distVars>>

\* if (size() == max_nr_iterations) { if (!firth) { add_comment("nr-fail");
\*   newtonRaphson(k, y_train, x_design, 1); } else add_comment("firth-fail"); }
\* else { k.beta(parameter_iterations.back()(1)); k.standard_error(se); k.p_val(...); }
NrCheck ==
  /\ pc_fit = "nr_check"
  /\ IF ConvergenceNotReached(n_iterations)
       THEN /\ comments' = AddStageFail(comments, firth)
            /\ IF ~firth
                 THEN /\ firth' = TRUE
                      /\ pc_fit' = "nr_start"
                 ELSE /\ pc_fit' = "done"
                      /\ UNCHANGED firth
            /\ UNCHANGED <<beta, standard_error, p_val>>
       ELSE /\ beta' = Written(StageName(firth), n_iterations - 1)
            /\ standard_error' = Written(StageName(firth), n_iterations - 1)
            /\ p_val' = Written(StageName(firth), n_iterations - 1)
            /\ pc_fit' = "done"
            /\ UNCHANGED <<comments, firth>>
  /\ UNCHANGED <<max_nr_iterations, n_iterations, loop_i, converged, exception,
                 entries, convergedAt, distVars>>

NextFit ==
  \/ FindMax
  \/ BfgsStandardError
  \/ CatchBfgsFail
  \/ NrStart
  \/ NrIterate
  \/ NrLoopExit
  \/ NrCheck

SpecFit == InitFit /\ [][NextFit]_vars

\* the fit is sequential code: whatever step is next is taken
SpecFitFair == SpecFit /\ WF_vars(NextFit)


(* ================== the synchronous engine (NO_THREAD) ================ *)

\* the loops of dissimiliarityMatrix with dist(i, j) = distanceFunction(ref_row,
\* inMat.row(j)); dist(j, i) = dist(i, j); in the place of the queue
RECURSIVE NoThreadLoop(_, _, _)
NoThreadLoop(m, a, b) ==
  IF ~(a < matSize) THEN m
  ELSE IF ~(b < matSize) THEN NoThreadLoop(m, a + 1, a + 1)
  ELSE IF a = b THEN NoThreadLoop([m EXCEPT ![<<a, b>>] = 0], a, b + 1)
  ELSE NoThreadLoop(
         [m EXCEPT ![<<a, b>>] = distanceFunction(inMat[a], inMat[b]),
                   ![<<b, a>>] = distanceFunction(inMat[a], inMat[b])],
         a, b + 1)

dissimiliarityMatrixNoThread ==
  NoThreadLoop([c \in (DOMAIN inMat) \X (DOMAIN inMat) |-> Unset], 0, 0)

(* ======================= properties: distance engine ================== *)

\* the number of positions at which input rows a and b differ
DifferingPositions(a, b) == Cardinality({k \in 1..NCols : inMat[a][k] # inMat[b][k]})

Returned == pc = "returned"

\* C1: when dissimiliarityMatrix has returned, every off-diagonal cell dist(a,b)
\* holds the number of positions at which input rows a and b differ, whatever
\* the interleaving of the scheduling loop and the threadDistance tasks.
C1_DistanceIsDifferingPositions ==
  Returned =>
    \A a, b \in DOMAIN inMat : a # b => dist[<<a, b>>] = DifferingPositions(a, b)

\* C2: the matrix the threaded engine returns equals, cell for cell, the matrix
\* of the synchronous engine for the same input, for every worker count.
C2_SameAsSynchronousEngine ==
  Returned => dist = dissimiliarityMatrixNoThread

\* pair p is scheduled before pair q by the loops (row-major order)
ScheduledBefore(p, q) == p.row < q.row \/ (p.row = q.row /\ p.col < q.col)

PendingBounded == Len(distance_calculations) <= threads

PendingInSubmissionOrder ==
  \A k, l \in 1..Len(distance_calculations) :
     k < l => ScheduledBefore(distance_calculations[k], distance_calculations[l])

\* a step that schedules a pair starts with fewer than threads pending and puts
\* the pair last; a step that collects takes the oldest pending computation and
\* writes its distance into both cells
ScheduleOrCollectStep ==
  /\ Len(distance_calculations') > Len(distance_calculations) =>
       /\ Len(distance_calculations) < threads
       /\ SubSeq(distance_calculations', 1, Len(distance_calculations)) = distance_calculations
  /\ Len(distance_calculations') < Len(distance_calculations) =>
       /\ distance_calculations' = Tail(distance_calculations)
       /\ Head(distance_calculations).done
       /\ dist'[<<Head(distance_calculations).row, Head(distance_calculations).col>>]
            = Head(distance_calculations).distance
       /\ dist'[<<Head(distance_calculations).col, Head(distance_calculations).row>>]
            = Head(distance_calculations).distance

\* C3: at most threads computations are scheduled and not yet collected; they
\* are held in submission order; with threads pending the engine collects the
\* oldest one and writes it before it schedules the next pair.
C3_BoundedFifoQueue ==
  /\ [](PendingBounded /\ PendingInSubmissionOrder)
  /\ [][ScheduleOrCollectStep]_vars

\* the queue is full for the second time: a result was collected and written
\* while threads >= 2 computations were pending
C3_Witness ==
  /\ threads >= 2
  /\ Len(distance_calculations) = threads
  /\ \E c \in DOMAIN dist : c[1] # c[2] /\ dist[c] # Unset

\* C4: at return every cell of the result is written, the diagonal is zero,
\* the matrix is symmetric and no scheduled computation is pending.
C4_CompleteSymmetricZeroDiagonal ==
  Returned =>
    /\ \A c \in DOMAIN dist : dist[c] # Unset
    /\ \A a \in DOMAIN inMat : dist[<<a, a>>] = 0
    /\ \A a, b \in DOMAIN inMat : dist[<<a, b>>] = dist[<<b, a>>]
    /\ distance_calculations = <<>>

\* a run over three samples, two of them different, with two workers has returned
C4_Witness ==
  /\ Returned
  /\ matSize = 3
  /\ threads = 2
  /\ \E a, b \in DOMAIN inMat : dist[<<a, b>>] > 0

(* ========================= properties: logit fitter =================== *)

TagOrder == <<"bfgs-fail", "nr-fail", "firth-fail">>

IsPrefix(s, t) == Len(s) <= Len(t) /\ \A k \in 1..Len(s) : s[k] = t[k]

Tagged(tag) == \E k \in 1..Len(comments) : comments[k] = tag

FailTag(f) == IF f THEN "firth-fail" ELSE "nr-fail"

FitCompleted == pc_fit = "done"

\* the newtonRaphson call with firth = f has run to its end
StageFinished(f) ==
  /\ entries[f] >= 1
  /\ \/ FitCompleted /\ firth = f
     \/ f = FALSE /\ firth = TRUE

C6_CapExhaustionEscalates ==
  StageFinished(FALSE) /\ convergedAt[FALSE] = 0 =>
    /\ Tagged("nr-fail")
    /\ firth
    /\ beta.by # "nr" /\ standard_error.by # "nr" /\ p_val.by # "nr"

\* the three result fields were stored by stage s, which converged
ResultOfConvergedStage(s) ==
  /\ beta.by = s /\ standard_error.by = s /\ p_val.by = s
  /\ s = "nr" => convergedAt[FALSE] >= 1 /\ beta.iterate = convergedAt[FALSE]
  /\ s = "firth" => convergedAt[TRUE] >= 1 /\ beta.iterate = convergedAt[TRUE]

FullResult ==
  /\ \E s \in {"bfgs", "nr", "firth"} : ResultOfConvergedStage(s)
  /\ ~Tagged("firth-fail")

TerminalFailure ==
  /\ Len(comments) >= 1 /\ comments[Len(comments)] = "firth-fail"
  /\ beta = Unwritten /\ standard_error = Unwritten /\ p_val = Unwritten

\* C7: a completed fit has either all of beta, standard error and p-value,
\* stored by the one stage that converged, and no "firth-fail" tag, or a tag
\* list ending in "firth-fail" and none of the three fields stored; never both,
\* never neither.
C7_ResultOrTerminalFailure ==
  FitCompleted => (FullResult /\ ~TerminalFailure) \/ (TerminalFailure /\ ~FullResult)

\* C8: no error raised inside a fitting stage leaves doLogit.
C8_NoErrorEscapes == pc_fit # "escaped"

\* C9: a Newton-Raphson or Firth stage that first meets the convergence test at
\* its k-th iteration, 1 <= k <= max_nr_iterations, adds no failure tag and
\* stores beta, standard error and p-value from that iterate.
C9_ConvergedStageStoresResult ==
  \A f \in BOOLEAN :
    StageFinished(f) /\ convergedAt[f] >= 1 =>
      /\ ~Tagged(FailTag(f))
      /\ FitCompleted =>
           /\ beta = Written(StageName(f), convergedAt[f])
           /\ standard_error = Written(StageName(f), convergedAt[f])
           /\ p_val = Written(StageName(f), convergedAt[f])

FitTerminated == pc_fit \in {"done", "escaped"}

\* a call of newtonRaphson ends by storing the result or by adding its tag
StageEndStep ==
  pc_fit = "nr_check" /\ pc_fit' # "nr_check" =>
    (comments' # comments) # (p_val' # p_val)

\* C10: newtonRaphson is entered at most once with firth = false and at most once
\* with firth = true, each entry makes at most max_nr_iterations updates and
\* ends by storing a result or adding its failure tag, and the fit terminates.
C10_FitTerminates ==
  /\ [](/\ entries[FALSE] <= 1 /\ entries[TRUE] <= 1
        /\ loop_i <= max_nr_iterations
        /\ pc_fit \in {"nr_loop", "nr_check"} => n_iterations - 1 <= max_nr_iterations)
  /\ [][StageEndStep]_vars
  /\ <>FitTerminated

\* both entries were made and the second one used every iteration of the cap
C10_Witness ==
  /\ FitCompleted
  /\ entries[FALSE] = 1 /\ entries[TRUE] = 1
  /\ firth /\ n_iterations - 1 = max_nr_iterations

=============================================================================
